---------------------------- MODULE Spec2Model ----------------------------
(***************************************************************************)
(* Model of the three operator tools of the repository:                    *)
(*   scripts/audit_autonomous_actions.py  (ActionsAuditor)                 *)
(*   scripts/validate_config.py           (ConfigValidator)                *)
(*   scripts/generate_sprint_report.py    (ReportGenerator)                *)
(* Strings the code inspects character by character (task titles, lines of *)
(* the mode registry) are sequences of one-character strings.  Strings the *)
(* code only compares (agent names of tasks, file names, exception types)  *)
(* are TLA+ strings.                                                       *)
(***************************************************************************)
EXTENDS Integers, Sequences, FiniteSets, TLC

VARIABLES
    \* ---- the invoked tool and its command line
    component,              \* which script's objects exist in this run
    project_name,           \* args.project_name
    locator_checked,        \* resolve_project_path has been called on project_name
    fs_accessed,            \* the component has touched the filesystem
    exit_code,              \* process exit code, NoExit while none
    \* ---- ActionsAuditor
    INTERVENTION_THRESHOLD, \* self.INTERVENTION_THRESHOLD
    LOOP_THRESHOLD,         \* self.LOOP_THRESHOLD
    workflow_file,          \* control/workflow-state.json: [exists, parses, data]
    anomalies,              \* self.anomalies
    aud_calls,              \* the methods called on the auditor so far, in order
    aud_raised,             \* exception that left the last call, "none" if it returned
    aud_printed,            \* user-facing messages printed by the auditor
    \* ---- ConfigValidator and the files it reads
    missing,                \* the required paths that do not exist
    roomodes,               \* .roomodes: [readable, lines]
    capabilities_yaml,      \* control/capabilities.yaml: what open + yaml.safe_load give
    sprint_yaml,            \* control/sprint.yaml: what open + yaml.safe_load give
    workflow_json,          \* control/workflow-state.json as the validator reads it
    workflow_schema,        \* docs/contracts/workflow_state_v2.schema.json
    errors,                 \* self.errors
    val_pc,                 \* position in run_validations
    val_result,             \* value returned by run_validations (meaningful at "returned")
    val_raised,             \* exception that left run_validations, "none" otherwise
    stages_run,             \* the stage methods entered so far, in order
    stage_errors,           \* errors counted by each of them
    undefined_agents,       \* the identifiers the cross-reference stage reported
    \* ---- ReportGenerator and the files it reads
    rep_sprint,             \* control/sprint.yaml: "missing", "yaml_error" or the type loaded
    rep_workflow,           \* control/workflow-state.json: "missing", "malformed" or the type loaded
    rep_quality,            \* control/quality-dashboard.json, likewise
    rep_decisions,          \* memory-bank/decisionLog.md: "missing" or "present"
    rep_workflow_data,      \* the mapping json.load gives for workflow-state.json:
                            \* bucket key -> number of tasks in its list
    rep_log,                \* the lines of decisionLog.md, without their line ends
    rep_progress,           \* the progress summaries printed so far, each
                            \* [completed, total, progress_percent]
    rep_shown,              \* the decision sections printed so far, each
                            \* [decisions, none_logged]
    rep_pc,                 \* position in main / generate_report
    rep_caught,             \* exception generate_report caught, "none" otherwise
    rep_raised,             \* exception that left generate_report, "none" otherwise
    rep_rendered            \* the parts of the report printed by _print_report, in order

audVars == <<INTERVENTION_THRESHOLD, LOOP_THRESHOLD, workflow_file, anomalies,
             aud_calls, aud_raised, aud_printed>>
valVars == <<missing, roomodes, capabilities_yaml, sprint_yaml, workflow_json,
             workflow_schema, errors, val_pc, val_result, val_raised, stages_run,
             stage_errors, undefined_agents>>
repVars == <<rep_sprint, rep_workflow, rep_quality, rep_decisions, rep_workflow_data,
             rep_log, rep_progress, rep_shown, rep_pc, rep_caught, rep_raised,
             rep_rendered>>
cliVars == <<component, project_name, locator_checked, fs_accessed, exit_code>>

-----------------------------------------------------------------------------
(* Bounds of the model *)

MaxTasks == 3
MaxCalls == 2
MaxBucket == 2

-----------------------------------------------------------------------------
(* Python built-ins used by the scripts, on sequences of characters *)

None == "<None>"
NoExit == 0 - 1

UpperCase == <<"A","B","C","D","E","F","G","H","I","J","K","L","M","N","O","P","Q","R","S","T","U","V","W","X","Y","Z">>
LowerCase == <<"a","b","c","d","e","f","g","h","i","j","k","l","m","n","o","p","q","r","s","t","u","v","w","x","y","z">>
Whitespace == {" ", "\t", "\n"}

\* dict.get(key, default)
Get(d, key, default) == IF key \in DOMAIN d THEN d[key] ELSE default

\* str.lower()
LowerChar(c) ==
    IF \E i \in 1..Len(UpperCase) : UpperCase[i] = c
    THEN LowerCase[CHOOSE i \in 1..Len(UpperCase) : UpperCase[i] = c]
    ELSE c
Lower(s) == [i \in 1..Len(s) |-> LowerChar(s[i])]

\* `pat in s` for strings
StartsAt(s, i, pat) ==
    /\ i + Len(pat) - 1 <= Len(s)
    /\ \A k \in 1..Len(pat) : s[i + k - 1] = pat[k]
Contains(s, pat) == \E i \in 1..(Len(s) + 1) : StartsAt(s, i, pat)

\* str.replace(old, ''): leftmost, non-overlapping occurrences, one pass
RECURSIVE RemoveFrom(_, _, _)
RemoveFrom(s, i, old) ==
    IF i > Len(s) THEN <<>>
    ELSE IF StartsAt(s, i, old) THEN RemoveFrom(s, i + Len(old), old)
    ELSE <<s[i]>> \o RemoveFrom(s, i + 1, old)
Remove(s, old) == RemoveFrom(s, 1, old)

\* str.split(): maximal runs of non-whitespace characters
RECURSIVE SplitFrom(_, _, _)
SplitFrom(s, i, cur) ==
    IF i > Len(s) THEN (IF cur = <<>> THEN <<>> ELSE <<cur>>)
    ELSE IF s[i] \in Whitespace
         THEN (IF cur = <<>> THEN <<>> ELSE <<cur>>) \o SplitFrom(s, i + 1, <<>>)
         ELSE SplitFrom(s, i + 1, Append(cur, s[i]))
Split(s) == SplitFrom(s, 1, <<>>)

\* ' '.join(tokens)
RECURSIVE Join(_)
Join(tokens) ==
    IF tokens = <<>> THEN <<>>
    ELSE IF Len(tokens) = 1 THEN tokens[1]
    ELSE tokens[1] \o <<" ">> \o Join(Tail(tokens))

\* xs[:n]
Take(xs, n) == SubSeq(xs, 1, IF Len(xs) < n THEN Len(xs) ELSE n)

\* sequences over S of length at most n
BoundedSeq(S, n) == UNION {[1..k -> S] : k \in 0..n}

\* the keys of collections.Counter(xs), in insertion (first occurrence) order
RECURSIVE CounterKeys(_)
CounterKeys(xs) ==
    IF xs = <<>> THEN <<>>
    ELSE LET front == SubSeq(xs, 1, Len(xs) - 1)
             last  == xs[Len(xs)]
             keys  == CounterKeys(front)
         IN  IF \E i \in 1..Len(keys) : keys[i] = last THEN keys ELSE Append(keys, last)
\* Counter(xs)[k]
CounterCount(xs, k) == Cardinality({i \in 1..Len(xs) : xs[i] = k})

-----------------------------------------------------------------------------
(* scripts/validate_config.py: the files *)

\* the paths _validate_file_existence checks, in order
RequiredPaths ==
    << ".roomodes", "project_dir", "control_dir", "schema_dir",
       "control/backlog.yaml", "control/sprint.yaml", "control/capabilities.yaml",
       "control/workflow-state.json", "control/quality-dashboard.json",
       "schema/backlog_v1.schema.json", "schema/workflow_state_v2.schema.json" >>
ControlFiles == {RequiredPaths[i] : i \in 5..9}
SchemaFiles == {RequiredPaths[i] : i \in 10..11}
RequiredPathSet == {RequiredPaths[i] : i \in 1..Len(RequiredPaths)}

\* a directory that does not exist has no files
MissingSets ==
    { m \in SUBSET RequiredPathSet :
        /\ "project_dir" \in m => "control_dir" \in m
        /\ "control_dir" \in m => ControlFiles \subseteq m
        /\ "schema_dir" \in m => SchemaFiles \subseteq m }

\* What open + yaml.safe_load give for a file: kind is "unreadable" (open
\* raises OSError), "yaml_error" (safe_load raises YAMLError), or the type of
\* the loaded value: "none" (empty document), "int", "list", "map".  members
\* are the keys of a map or the items of a list; agents is the value under
\* the key 'agents' of a map.
NoAgents == [kind |-> "absent", items |-> <<>>]
Yaml(kind, members, agents) == [kind |-> kind, members |-> members, agents |-> agents]
AgentList(items) == [kind |-> "list", items |-> items]

\* agent identifiers of the model
IdQa == <<"q","a">>
IdDev == <<"d","e","v">>
IdGhost == <<"g","h","o","s","t">>
IdNew == <<"n","e","w">>

CapabilitiesPool ==
    { Yaml("unreadable", {}, NoAgents),
      Yaml("yaml_error", {}, NoAgents),
      Yaml("none", {}, NoAgents),
      Yaml("int", {}, NoAgents),
      Yaml("list", {"qa"}, NoAgents),
      Yaml("map", {"version"}, NoAgents),
      Yaml("map", {"agents"}, [kind |-> "int", items |-> <<>>]),
      Yaml("map", {"agents"}, AgentList(<<>>)),
      Yaml("map", {"agents"}, AgentList(<<IdQa>>)),
      Yaml("map", {"agents", "version"}, AgentList(<<IdQa, IdDev>>)),
      Yaml("map", {"agents"}, AgentList(<<IdGhost>>)),
      Yaml("map", {"agents"}, AgentList(<<IdQa, IdGhost>>)),
      Yaml("map", {"agents"}, AgentList(<<IdGhost, IdQa, IdNew, IdGhost>>)) }

SprintKeys == <<"sprint_id", "goal", "status">>
SprintPool ==
    { Yaml("unreadable", {}, NoAgents),
      Yaml("yaml_error", {}, NoAgents),
      Yaml("none", {}, NoAgents),
      Yaml("int", {}, NoAgents),
      Yaml("list", {"goal"}, NoAgents) }
    \cup { Yaml("map", ks, NoAgents) : ks \in SUBSET {"sprint_id", "goal", "status", "owner"} }

\* .roomodes: the lines of the file, without their line ends
RoomodesPool ==
    { [readable |-> FALSE, lines |-> <<>>],
      [readable |-> TRUE, lines |-> <<>>],
      [readable |-> TRUE, lines |-> << <<" ", "\t">>, <<>> >>],
      [readable |-> TRUE, lines |-> << IdQa >>],
      [readable |-> TRUE, lines |-> << <<" ">> \o IdQa \o <<" ">>, <<>>, <<"\t">> \o IdDev >>],
      [readable |-> TRUE, lines |-> << IdQa, IdDev, IdGhost \o <<" ">>, IdNew >>] }

\* the JSON file and its schema: open, json.load, and jsonschema.validate of
\* the one against the other
WorkflowJsonPool ==
    { [readable |-> FALSE, parses |-> FALSE, conforms |-> FALSE],
      [readable |-> TRUE, parses |-> FALSE, conforms |-> FALSE],
      [readable |-> TRUE, parses |-> TRUE, conforms |-> FALSE],
      [readable |-> TRUE, parses |-> TRUE, conforms |-> TRUE] }
SchemaPool ==
    { [readable |-> FALSE, parses |-> FALSE],
      [readable |-> TRUE, parses |-> FALSE],
      [readable |-> TRUE, parses |-> TRUE] }

\* the reporter's variables in a run of another tool
ReporterIdle ==
    /\ rep_sprint = "missing"
    /\ rep_workflow = "missing"
    /\ rep_quality = "missing"
    /\ rep_decisions = "missing"
    /\ rep_workflow_data = <<>>
    /\ rep_log = <<>>
    /\ rep_progress = <<>>
    /\ rep_shown = <<>>
    /\ rep_pc = "idle"
    /\ rep_caught = "none"
    /\ rep_raised = "none"
    /\ rep_rendered = <<>>

\* the validator's variables in a run of another tool
ValidatorIdle ==
    /\ missing = {}
    /\ roomodes = [readable |-> TRUE, lines |-> <<>>]
    /\ capabilities_yaml = Yaml("none", {}, NoAgents)
    /\ sprint_yaml = Yaml("none", {}, NoAgents)
    /\ workflow_json = [readable |-> TRUE, parses |-> TRUE, conforms |-> TRUE]
    /\ workflow_schema = [readable |-> TRUE, parses |-> TRUE]
    /\ errors = 0
    /\ val_pc = "idle"
    /\ val_result = FALSE
    /\ val_raised = "none"
    /\ stages_run = <<>>
    /\ stage_errors = <<>>
    /\ undefined_agents = {}

-----------------------------------------------------------------------------
(* scripts/audit_autonomous_actions.py *)

DefaultInterventionThreshold == 3
DefaultLoopThreshold == 2

\* the names bound at module level in audit_autonomous_actions.py
AuditorModuleNames == {"os", "sys", "json", "argparse", "Counter", "Colors", "ActionsAuditor"}

MARKER == <<"R","e","m","e","d","i","a","t","i","o","n",":">>
marker == <<"r","e","m","e","d","i","a","t","i","o","n",":">>
oversight_agents == {"quality-assurance-coordinator", "technical-debt-manager"}

\* titles of the task pool
TitleX == <<"R","e","m","e","d","i","a","t","i","o","n",":"," ","F","i","x"," ","l","i","n","t"," ","e","r","r","o","r","s"," ","i","n"," ","m","o","d","u","l","e"," ","X">>
TitleY == <<"R","e","m","e","d","i","a","t","i","o","n",":"," ","F","i","x"," ","l","i","n","t"," ","e","r","r","o","r","s"," ","i","n"," ","m","o","d","u","l","e"," ","Y">>
TitleZ == <<"R","e","m","e","d","i","a","t","i","o","n",":"," ","F","i","x"," ","l","i","n","t"," ","e","r","r","o","r","s"," ","i","n"," ","m","o","d","u","l","e"," ","Z">>
TitleW == <<"r","e","m","e","d","i","a","t","i","o","n",":"," ","f","i","x"," "," ","l","i","n","t"," ","e","r","r","o","r","s","\t","i","n"," ","m","o","d","u","l","e"," ","W">>
TitleD == <<"U","p","d","a","t","e"," ","d","o","c","s">>
TitleR == <<"R","e","m","e","d","i","a","t","i","o","n",":"," ","u","p","d","a","t","e"," ","d","o","c","s">>
\* a title in which the marker encloses another occurrence of the marker
TitleN == <<"R","e","m","e","d","i","a","R","e","m","e","d","i","a","t","i","o","n",":","t","i","o","n",":"," ","r","e","r","u","n">>
TitlePool == {TitleX, TitleY, TitleZ, TitleW, TitleD, TitleR, TitleN, <<>>}

\* the tasks a workflow-state.json of the model may hold, by bucket; one
\* completed task has no 'assigned_to' key
PendingPool == { [assigned_to |-> "quality-assurance-coordinator", title |-> TitleX],
                 [assigned_to |-> "developer", title |-> TitleW] }
ActivePool == { [assigned_to |-> "quality-assurance-coordinator", title |-> TitleY],
                [assigned_to |-> "developer", title |-> TitleZ] }
CompletedPool == { [assigned_to |-> "technical-debt-manager", title |-> TitleD],
                   [title |-> TitleR],
                   [assigned_to |-> "developer", title |-> TitleN] }
AgentPool == {"quality-assurance-coordinator", "technical-debt-manager", "developer", None}

EmptyWorkflow == [pending_tasks |-> <<>>, active_tasks |-> <<>>, completed_tasks |-> <<>>]
WorkflowData ==
    { [pending_tasks |-> p, active_tasks |-> a, completed_tasks |-> c] :
        <<p, a, c>> \in { w \in BoundedSeq(PendingPool, MaxTasks)
                                  \X BoundedSeq(ActivePool, MaxTasks)
                                  \X BoundedSeq(CompletedPool, MaxTasks) :
                          Len(w[1]) + Len(w[2]) + Len(w[3]) <= MaxTasks } }
WorkflowFiles ==
    { [exists |-> FALSE, parses |-> FALSE, data |-> EmptyWorkflow],
      [exists |-> TRUE, parses |-> FALSE, data |-> EmptyWorkflow] }
    \cup { [exists |-> TRUE, parses |-> TRUE, data |-> d] : d \in WorkflowData }
Thresholds == (0..MaxTasks) \cup {DefaultInterventionThreshold, DefaultLoopThreshold}

\* all_tasks of run_audit: the three buckets, concatenated
AllTasks(workflow_data) ==
    Get(workflow_data, "pending_tasks", <<>>)
        \o Get(workflow_data, "active_tasks", <<>>)
        \o Get(workflow_data, "completed_tasks", <<>>)

\* variant: only the assignee makes a task an intervention task
IsInterventionTaskByAgentOnly(task) == Get(task, "assigned_to", None) \in oversight_agents

\* the test of the list comprehension of _check_high_intervention_rate
IsInterventionTask(task) ==
    \/ Get(task, "assigned_to", None) \in oversight_agents
    \/ Contains(Get(task, "title", <<>>), MARKER)

\* `count > threshold` of both checks
ExceedsThreshold(count, threshold) == count > threshold

\* the anomalies _check_high_intervention_rate appends, in order
HighInterventionAnomalies(all_tasks, threshold) ==
    LET intervention_tasks == SelectSeq(all_tasks, IsInterventionTask)
        creators == [i \in 1..Len(intervention_tasks) |->
                        Get(intervention_tasks[i], "assigned_to", None)]
        Flagged(agent) == ExceedsThreshold(CounterCount(creators, agent), threshold)
        agents == SelectSeq(CounterKeys(creators), Flagged)
    IN  [i \in 1..Len(agents) |->
            [type |-> "High Intervention Rate",
             details |-> [agent |-> agents[i],
                          count |-> CounterCount(creators, agents[i]),
                          threshold |-> threshold]]]

\* variant: no truncation to the first 4 tokens
normalizeAllTokens(title) == Join(Split(Remove(Lower(title), marker)))

\* the normalization of _check_task_loops
normalize(title) == Join(Take(Split(Remove(Lower(title), marker)), 4))
NormalizedTitle == [t \in TitlePool |-> normalize(t)]
\* the normalization applied to an already normalized title
NormalizedTwice == [t \in TitlePool |-> normalize(NormalizedTitle[t])]

\* the anomalies _check_task_loops appends, in order
TaskLoopAnomalies(all_tasks, threshold) ==
    LET normalized_titles == [i \in 1..Len(all_tasks) |->
                                 NormalizedTitle[Get(all_tasks[i], "title", <<>>)]]
        Flagged(title) == ExceedsThreshold(CounterCount(normalized_titles, title), threshold)
        titles == SelectSeq(CounterKeys(normalized_titles), Flagged)
    IN  [i \in 1..Len(titles) |->
            [type |-> "Potential Task Loop",
             details |-> [title |-> titles[i],
                          count |-> CounterCount(normalized_titles, titles[i]),
                          threshold |-> threshold]]]

\* ActionsAuditor._check_high_intervention_rate(all_tasks), called on the instance
CheckHighInterventionRate ==
    /\ component = "auditor" /\ exit_code = NoExit
    /\ Len(aud_calls) < MaxCalls
    /\ anomalies' = anomalies \o HighInterventionAnomalies(AllTasks(workflow_file.data),
                                                           INTERVENTION_THRESHOLD)
    /\ aud_calls' = Append(aud_calls, "_check_high_intervention_rate")
    /\ aud_raised' = "none"
    /\ UNCHANGED <<INTERVENTION_THRESHOLD, LOOP_THRESHOLD, workflow_file, aud_printed>>
    /\ UNCHANGED <<cliVars, valVars, repVars>>

\* ActionsAuditor._check_task_loops(all_tasks), called on the instance
CheckTaskLoops ==
    /\ component = "auditor" /\ exit_code = NoExit
    /\ Len(aud_calls) < MaxCalls
    /\ anomalies' = anomalies \o TaskLoopAnomalies(AllTasks(workflow_file.data), LOOP_THRESHOLD)
    /\ aud_calls' = Append(aud_calls, "_check_task_loops")
    /\ aud_raised' = "none"
    /\ UNCHANGED <<INTERVENTION_THRESHOLD, LOOP_THRESHOLD, workflow_file, aud_printed>>
    /\ UNCHANGED <<cliVars, valVars, repVars>>

\* What one call of ActionsAuditor.run_audit does to the auditor:
\* [raised, anomalies, printed, fs]
RunAuditEffect ==
    IF "print_header" \notin AuditorModuleNames
    THEN \* line 61, outside the try: NameError leaves run_audit
         [raised |-> "NameError", anomalies |-> anomalies, printed |-> aud_printed, fs |-> FALSE]
    ELSE IF ~workflow_file.exists
    THEN [raised |-> "none", anomalies |-> anomalies,
          printed |-> Append(aud_printed, "workflow-state.json not found"), fs |-> TRUE]
    ELSE IF ~workflow_file.parses
    THEN \* json.load raises; except Exception: print, sys.exit(1)
         [raised |-> "SystemExit", anomalies |-> anomalies,
          printed |-> Append(aud_printed, "unexpected error"), fs |-> TRUE]
    ELSE IF AllTasks(workflow_file.data) = <<>>
    THEN [raised |-> "none", anomalies |-> anomalies,
          printed |-> Append(aud_printed, "No tasks found"), fs |-> TRUE]
    ELSE LET all_tasks == AllTasks(workflow_file.data)
             found == anomalies
                        \o HighInterventionAnomalies(all_tasks, INTERVENTION_THRESHOLD)
                        \o TaskLoopAnomalies(all_tasks, LOOP_THRESHOLD)
         IN  [raised |-> "none", anomalies |-> found,
              printed |-> Append(aud_printed,
                                 IF found = <<>> THEN "No anomalies detected"
                                                 ELSE "Found anomalies"),
              fs |-> TRUE]

\* ActionsAuditor.run_audit(), called on the instance by a caller that survives it
RunAudit ==
    /\ component = "auditor" /\ exit_code = NoExit
    /\ Len(aud_calls) < MaxCalls
    /\ anomalies' = RunAuditEffect.anomalies
    /\ aud_printed' = RunAuditEffect.printed
    /\ aud_raised' = RunAuditEffect.raised
    /\ fs_accessed' = (fs_accessed \/ RunAuditEffect.fs)
    /\ aud_calls' = Append(aud_calls, "run_audit")
    /\ UNCHANGED <<INTERVENTION_THRESHOLD, LOOP_THRESHOLD, workflow_file>>
    /\ UNCHANGED <<component, project_name, locator_checked, exit_code>>
    /\ UNCHANGED <<valVars, repVars>>

\* exit status of a Python process whose main script ended by `raised`
ProcessExit(raised, code) ==
    IF raised = "none" THEN 0
    ELSE IF raised = "SystemExit" THEN code
    ELSE 1

\* the script run as __main__: ActionsAuditor(args.project_name).run_audit()
AuditorMain ==
    /\ component = "auditor" /\ exit_code = NoExit
    /\ aud_calls = <<>>
    /\ INTERVENTION_THRESHOLD = DefaultInterventionThreshold
    /\ LOOP_THRESHOLD = DefaultLoopThreshold
    /\ anomalies' = RunAuditEffect.anomalies
    /\ aud_printed' = RunAuditEffect.printed
    /\ aud_raised' = RunAuditEffect.raised
    /\ fs_accessed' = (fs_accessed \/ RunAuditEffect.fs)
    /\ aud_calls' = Append(aud_calls, "run_audit")
    /\ exit_code' = ProcessExit(RunAuditEffect.raised, 1)
    /\ UNCHANGED <<INTERVENTION_THRESHOLD, LOOP_THRESHOLD, workflow_file>>
    /\ UNCHANGED <<component, project_name, locator_checked>>
    /\ UNCHANGED <<valVars, repVars>>

ProjectNames == {"sample-app", "../outside", "no-such-project"}

\* ActionsAuditor.__init__
InitAuditor ==
    /\ component = "auditor"
    /\ project_name \in ProjectNames
    /\ locator_checked = FALSE
    /\ fs_accessed = FALSE
    /\ exit_code = NoExit
    /\ INTERVENTION_THRESHOLD \in Thresholds
    /\ LOOP_THRESHOLD \in Thresholds
    /\ workflow_file \in WorkflowFiles
    /\ (project_name = "no-such-project" => ~workflow_file.exists)
    /\ anomalies = <<>>
    /\ aud_calls = <<>>
    /\ aud_raised = "none"
    /\ aud_printed = <<>>
    /\ ValidatorIdle
    /\ ReporterIdle

vars == <<cliVars, audVars, valVars, repVars>>

NextAuditor == CheckHighInterventionRate \/ CheckTaskLoops \/ RunAudit \/ AuditorMain

SpecAuditor == InitAuditor /\ [][NextAuditor]_vars

-----------------------------------------------------------------------------
(* scripts/validate_config.py: ConfigValidator *)

\* the auditor's variables in a run of another tool
AuditorIdle ==
    /\ INTERVENTION_THRESHOLD = DefaultInterventionThreshold
    /\ LOOP_THRESHOLD = DefaultLoopThreshold
    /\ workflow_file = [exists |-> FALSE, parses |-> FALSE, data |-> EmptyWorkflow]
    /\ anomalies = <<>>
    /\ aud_calls = <<>>
    /\ aud_raised = "none"
    /\ aud_printed = <<>>

\* str.strip()
RECURSIVE LStrip(_)
LStrip(s) == IF s # <<>> /\ Head(s) \in Whitespace THEN LStrip(Tail(s)) ELSE s
RECURSIVE RStrip(_)
RStrip(s) ==
    IF s # <<>> /\ s[Len(s)] \in Whitespace THEN RStrip(SubSeq(s, 1, Len(s) - 1)) ELSE s
Strip(s) == RStrip(LStrip(s))

\* f.read() of a file with these lines
RECURSIVE FileContent(_)
FileContent(lines) ==
    IF lines = <<>> THEN <<>> ELSE Head(lines) \o <<"\n">> \o FileContent(Tail(lines))

\* set(xs)
ToSet(xs) == {xs[i] : i \in 1..Len(xs)}

\* self.errors after _validate_file_existence: one _check_path per required path
ExistenceErrors(m) == Cardinality({i \in 1..Len(RequiredPaths) : RequiredPaths[i] \in m})

\* the errors _validate_roomodes counts; it catches every exception
RoomodesErrors(r) ==
    IF ~r.readable THEN 1
    ELSE IF Strip(FileContent(r.lines)) = <<>> THEN 1
    ELSE 0

\* The capabilities.yaml block of _validate_yaml_files: "ok", "counted" (one
\* error counted) or the exception that leaves the block; the block catches
\* yaml.YAMLError only.
CapabilitiesOutcome(v) ==
    IF v.kind = "unreadable" THEN "PermissionError"
    ELSE IF v.kind = "yaml_error" THEN "counted"
    ELSE IF v.kind \in {"none", "int"} THEN "TypeError"
    ELSE IF v.kind = "list" THEN (IF "agents" \in v.members THEN "TypeError" ELSE "counted")
    ELSE IF "agents" \in v.members /\ v.agents.kind = "list" /\ v.agents.items # <<>>
         THEN "ok"
         ELSE "counted"

\* the sprint.yaml block of _validate_yaml_files
SprintOutcome(v) ==
    IF v.kind = "unreadable" THEN "PermissionError"
    ELSE IF v.kind = "yaml_error" THEN "counted"
    ELSE IF v.kind \in {"none", "int"} THEN "TypeError"
    ELSE LET missing_keys == SelectSeq(SprintKeys, LAMBDA key : key \notin v.members)
         IN  IF missing_keys = <<>> THEN "ok" ELSE "counted"

Escapes(outcome) == outcome \notin {"ok", "counted"}
Counted(outcome) == IF outcome = "counted" THEN 1 ELSE 0

\* the errors _validate_json_files counts for its one (data, schema) pair;
\* its last handler catches every exception
JsonErrors(w, schema) ==
    IF ~w.readable \/ ~w.parses THEN 1
    ELSE IF ~schema.readable \/ ~schema.parses THEN 1
    ELSE IF ~w.conforms THEN 1
    ELSE 0

\* variant: the lines of .roomodes are not stripped
DefinedModesUnstripped(r) == ToSet(r.lines) \ {<<>>}

\* defined_modes of _cross_reference_capabilities
DefinedModes(r) == {Strip(r.lines[i]) : i \in 1..Len(r.lines)} \ {<<>>}

\* _cross_reference_capabilities: [errors, reported]; it catches every exception
CrossReference(r, caps) ==
    IF ~r.readable THEN [errors |-> 1, reported |-> {}]
    ELSE IF caps.kind \in {"unreadable", "yaml_error"} THEN [errors |-> 1, reported |-> {}]
    ELSE IF caps.kind # "map" THEN [errors |-> 1, reported |-> {}]  \* no .get: AttributeError
    ELSE IF "agents" \notin caps.members THEN [errors |-> 0, reported |-> {}]
    ELSE IF caps.agents.kind # "list" THEN [errors |-> 1, reported |-> {}]  \* set(int): TypeError
    ELSE LET project_agents == ToSet(caps.agents.items)
             undefined == project_agents \ DefinedModes(r)
         IN  IF undefined = {} THEN [errors |-> 0, reported |-> {}]
             ELSE [errors |-> 1, reported |-> undefined]

\* variant: the run is reported valid whatever was counted
FinalResultAlwaysValid(errs) == TRUE

\* `return self.errors == 0`
FinalResult(errs) == errs = 0

Validating == component = "validator" /\ exit_code = NoExit

\* stage 1: _validate_file_existence
ValidateFileExistence ==
    /\ Validating /\ val_pc = "constructed"
    /\ errors' = errors + ExistenceErrors(missing)
    /\ stages_run' = Append(stages_run, "_validate_file_existence")
    /\ stage_errors' = Append(stage_errors, ExistenceErrors(missing))
    /\ fs_accessed' = TRUE
    /\ val_pc' = "after_existence"
    /\ UNCHANGED <<missing, roomodes, capabilities_yaml, sprint_yaml, workflow_json,
                   workflow_schema, val_result, val_raised, undefined_agents>>
    /\ UNCHANGED <<component, project_name, locator_checked, exit_code>>
    /\ UNCHANGED <<audVars, repVars>>

\* `if self.errors > 0: return False`
ReturnCoreFilesMissing ==
    /\ Validating /\ val_pc = "after_existence"
    /\ errors > 0
    /\ val_result' = FALSE
    /\ val_pc' = "returned"
    /\ UNCHANGED <<missing, roomodes, capabilities_yaml, sprint_yaml, workflow_json,
                   workflow_schema, errors, val_raised, stages_run, stage_errors,
                   undefined_agents>>
    /\ UNCHANGED <<cliVars, audVars, repVars>>

\* stage 2: _validate_roomodes
ValidateRoomodes ==
    /\ Validating /\ val_pc = "after_existence"
    /\ ~(errors > 0)
    /\ errors' = errors + RoomodesErrors(roomodes)
    /\ stages_run' = Append(stages_run, "_validate_roomodes")
    /\ stage_errors' = Append(stage_errors, RoomodesErrors(roomodes))
    /\ val_pc' = "after_roomodes"
    /\ UNCHANGED <<missing, roomodes, capabilities_yaml, sprint_yaml, workflow_json,
                   workflow_schema, val_result, val_raised, undefined_agents>>
    /\ UNCHANGED <<cliVars, audVars, repVars>>

\* stage 3: _validate_yaml_files, the capabilities.yaml block and then the
\* sprint.yaml block; an exception neither block catches leaves run_validations
ValidateYamlFiles ==
    /\ Validating /\ val_pc = "after_roomodes"
    /\ LET caps == CapabilitiesOutcome(capabilities_yaml)
           sprint == SprintOutcome(sprint_yaml)
           counted == IF Escapes(caps) THEN 0
                      ELSE IF Escapes(sprint) THEN Counted(caps)
                      ELSE Counted(caps) + Counted(sprint)
       IN  /\ errors' = errors + counted
           /\ stage_errors' = Append(stage_errors, counted)
           /\ val_raised' = IF Escapes(caps) THEN caps
                            ELSE IF Escapes(sprint) THEN sprint
                            ELSE "none"
           /\ val_pc' = IF Escapes(caps) \/ Escapes(sprint) THEN "raised" ELSE "after_yaml"
    /\ stages_run' = Append(stages_run, "_validate_yaml_files")
    /\ UNCHANGED <<missing, roomodes, capabilities_yaml, sprint_yaml, workflow_json,
                   workflow_schema, val_result, undefined_agents>>
    /\ UNCHANGED <<cliVars, audVars, repVars>>

\* stage 4: _validate_json_files
ValidateJsonFiles ==
    /\ Validating /\ val_pc = "after_yaml"
    /\ errors' = errors + JsonErrors(workflow_json, workflow_schema)
    /\ stages_run' = Append(stages_run, "_validate_json_files")
    /\ stage_errors' = Append(stage_errors, JsonErrors(workflow_json, workflow_schema))
    /\ val_pc' = "after_json"
    /\ UNCHANGED <<missing, roomodes, capabilities_yaml, sprint_yaml, workflow_json,
                   workflow_schema, val_result, val_raised, undefined_agents>>
    /\ UNCHANGED <<cliVars, audVars, repVars>>

\* stage 5: _cross_reference_capabilities
CrossReferenceCapabilities ==
    /\ Validating /\ val_pc = "after_json"
    /\ errors' = errors + CrossReference(roomodes, capabilities_yaml).errors
    /\ undefined_agents' = CrossReference(roomodes, capabilities_yaml).reported
    /\ stages_run' = Append(stages_run, "_cross_reference_capabilities")
    /\ stage_errors' = Append(stage_errors, CrossReference(roomodes, capabilities_yaml).errors)
    /\ val_pc' = "after_cross_reference"
    /\ UNCHANGED <<missing, roomodes, capabilities_yaml, sprint_yaml, workflow_json,
                   workflow_schema, val_result, val_raised>>
    /\ UNCHANGED <<cliVars, audVars, repVars>>

\* `return self.errors == 0`
ReturnResult ==
    /\ Validating /\ val_pc = "after_cross_reference"
    /\ val_result' = FinalResult(errors)
    /\ val_pc' = "returned"
    /\ UNCHANGED <<missing, roomodes, capabilities_yaml, sprint_yaml, workflow_json,
                   workflow_schema, errors, val_raised, stages_run, stage_errors,
                   undefined_agents>>
    /\ UNCHANGED <<cliVars, audVars, repVars>>

\* __main__ after run_validations: sys.exit(0) if is_valid, sys.exit(1) if not;
\* an exception that left run_validations ends the process
ValidatorExit ==
    /\ Validating /\ val_pc \in {"returned", "raised"}
    /\ exit_code' = IF val_pc = "raised" THEN ProcessExit(val_raised, 1)
                    ELSE IF val_result THEN 0 ELSE 1
    /\ val_pc' = "exited"
    /\ UNCHANGED <<missing, roomodes, capabilities_yaml, sprint_yaml, workflow_json,
                   workflow_schema, errors, val_result, val_raised, stages_run,
                   stage_errors, undefined_agents>>
    /\ UNCHANGED <<component, project_name, locator_checked, fs_accessed>>
    /\ UNCHANGED <<audVars, repVars>>

\* __main__ up to ConfigValidator(args.project_name); the files are read only
\* when every required path exists
InitValidator ==
    /\ component = "validator"
    /\ project_name \in ProjectNames
    /\ locator_checked = FALSE
    /\ fs_accessed = FALSE
    /\ exit_code = NoExit
    /\ missing \in MissingSets
    /\ (project_name = "no-such-project" => "project_dir" \in missing)
    /\ IF missing = {}
       THEN /\ roomodes \in RoomodesPool
            /\ capabilities_yaml \in CapabilitiesPool
            /\ sprint_yaml \in SprintPool
            /\ workflow_json \in WorkflowJsonPool
            /\ workflow_schema \in SchemaPool
       ELSE /\ roomodes = [readable |-> TRUE, lines |-> <<>>]
            /\ capabilities_yaml = Yaml("none", {}, NoAgents)
            /\ sprint_yaml = Yaml("none", {}, NoAgents)
            /\ workflow_json = [readable |-> TRUE, parses |-> TRUE, conforms |-> TRUE]
            /\ workflow_schema = [readable |-> TRUE, parses |-> TRUE]
    /\ errors = 0
    /\ val_pc = "constructed"
    /\ val_result = FALSE
    /\ val_raised = "none"
    /\ stages_run = <<>>
    /\ stage_errors = <<>>
    /\ undefined_agents = {}
    /\ AuditorIdle
    /\ ReporterIdle

NextValidator ==
    \/ ValidateFileExistence
    \/ ReturnCoreFilesMissing
    \/ ValidateRoomodes
    \/ ValidateYamlFiles
    \/ ValidateJsonFiles
    \/ CrossReferenceCapabilities
    \/ ReturnResult
    \/ ValidatorExit

SpecValidator == InitValidator /\ [][NextValidator]_vars

-----------------------------------------------------------------------------
(* scripts/generate_sprint_report.py: ReportGenerator and main *)

\* path_utils.resolve_project_path raises InvalidProjectPathError for these:
\* a name with a path-traversal sequence, or a project that is not on disk
InvalidProjectPath(name) == name \in {"../outside", "no-such-project"}

\* the workflow-state.json mappings of the model: each bucket key is absent or
\* holds a list of 0..MaxBucket tasks
BucketKeys == {"completed_tasks", "active_tasks", "pending_tasks"}
ReporterWorkflows == UNION { [K -> 0..MaxBucket] : K \in SUBSET BucketKeys }

\* the lines a decisionLog.md of the model is made of: a header, an indented
\* comment, a separator, a whitespace-only line and six entries (one of them
\* with surrounding whitespace)
LineHeader == <<"#"," ","L","o","g">>
LineNote == <<" "," ","#"," ","n","o","t","e">>
LineRule == <<"-","-","-">>
LineBlank == <<" "," ">>
LineD1 == <<"d","1">>
LineD2 == <<" ","d","2"," ">>
LineD3 == <<"d","3">>
LineD4 == <<"d","4">>
LineD5 == <<"d","5">>
LineD6 == <<"d","6">>
DecisionLogMaster ==
    <<LineHeader, LineD1, LineD2, LineBlank, LineD3, LineRule, LineNote, LineD4, LineD5,
      LineD6>>
\* the lines of xs at the positions of I, in order
RECURSIVE Pick(_, _)
Pick(xs, I) ==
    IF xs = <<>> THEN <<>>
    ELSE Pick(SubSeq(xs, 1, Len(xs) - 1), I)
            \o (IF Len(xs) \in I THEN <<xs[Len(xs)]>> ELSE <<>>)
DecisionLogs == { Pick(DecisionLogMaster, I) : I \in SUBSET (1..Len(DecisionLogMaster)) }

\* xs[-n:]
LastN(xs, n) == SubSeq(xs, (IF Len(xs) > n THEN Len(xs) - n + 1 ELSE 1), Len(xs))

\* self.data['decisions'] of _load_data: the stripped lines that are not empty
\* after stripping and do not start with "#" before stripping, the last 5
LoadDecisions(log) ==
    LET Kept(line) == Strip(line) # <<>> /\ ~StartsAt(line, 1, <<"#">>)
        kept == SelectSeq(log, Kept)
        lines == [i \in 1..Len(kept) |-> Strip(kept[i])]
    IN  LastN(lines, 5)

\* the decision section of _print_report
PrintDecisions(decisions) ==
    LET Printed(decision) == decision # <<"-","-","-">>
    IN  [decisions |-> SelectSeq(decisions, Printed), none_logged |-> decisions = <<>>]

\* Python numbers the progress summary computes with, as fractions in lowest terms
RECURSIVE GCD(_, _)
GCD(a, b) == IF b = 0 THEN a ELSE GCD(b, a % b)
Rat(n, d) == [num |-> n \div GCD(n, d), den |-> d \div GCD(n, d)]
\* a / b on integers (true division)
TrueDiv(a, b) == Rat(a, b)
\* r * k
Times(r, k) == Rat(r.num * k, r.den)

\* len(workflow.get(key, []))
BucketLen(workflow, key) == Get(workflow, key, 0)

\* variant: floor division of the counts
ProgressPercentFloorDiv(completed, total) ==
    IF total > 0 THEN Times(Rat(completed \div total, 1), 100) ELSE Rat(0, 1)

\* progress_percent of _print_report
ProgressPercent(completed, total) ==
    IF total > 0 THEN Times(TrueDiv(completed, total), 100) ELSE Rat(0, 1)

\* the progress summary of _print_report
PrintProgress(workflow) ==
    LET completed == BucketLen(workflow, "completed_tasks")
        active == BucketLen(workflow, "active_tasks")
        pending == BucketLen(workflow, "pending_tasks")
        total == completed + active + pending
    IN  [completed |-> completed, total |-> total,
         progress_percent |-> ProgressPercent(completed, total)]

\* _load_data: the exception of the first file that cannot be opened or
\* parsed, in the order sprint, workflow, quality, decisions; "none" if all load
LoadData ==
    IF rep_sprint = "missing" THEN "FileNotFoundError"
    ELSE IF rep_sprint = "yaml_error" THEN "YAMLError"
    ELSE IF rep_workflow = "missing" THEN "FileNotFoundError"
    ELSE IF rep_workflow = "malformed" THEN "JSONDecodeError"
    ELSE IF rep_quality = "missing" THEN "FileNotFoundError"
    ELSE IF rep_quality = "malformed" THEN "JSONDecodeError"
    ELSE IF rep_decisions = "missing" THEN "FileNotFoundError"
    ELSE "none"

\* _print_report: [raised, rendered]; a loaded value that is no mapping has
\* no .get, and the parts printed before that line stay printed
PrintReport ==
    IF rep_sprint # "map"
    THEN [raised |-> "AttributeError", rendered |-> <<"rule">>]
    ELSE IF rep_workflow # "map"
    THEN [raised |-> "AttributeError", rendered |-> <<"rule", "header", "goal">>]
    ELSE IF rep_quality # "map"
    THEN [raised |-> "AttributeError",
          rendered |-> <<"rule", "header", "goal", "progress">>]
    ELSE [raised |-> "none",
          rendered |-> <<"rule", "header", "goal", "progress", "quality", "decisions", "end">>]

\* what _print_report adds to the progress summaries and decision sections printed
Rendered(part) == \E i \in 1..Len(PrintReport.rendered) : PrintReport.rendered[i] = part
PrintedProgress ==
    IF LoadData = "none" /\ Rendered("progress")
    THEN <<PrintProgress(rep_workflow_data)>> ELSE <<>>
PrintedDecisions ==
    IF LoadData = "none" /\ Rendered("decisions")
    THEN <<PrintDecisions(LoadDecisions(rep_log))>> ELSE <<>>

\* the exception generate_report's try block ends with, "none" if it completes
TryBlock == IF LoadData # "none" THEN LoadData ELSE PrintReport.raised

\* main: resolve_project_path(args.project_name), sys.exit(1) when it raises
ResolveProjectPath ==
    /\ component = "reporter" /\ exit_code = NoExit
    /\ rep_pc = "main"
    /\ locator_checked' = TRUE
    /\ IF InvalidProjectPath(project_name)
       THEN exit_code' = 1 /\ rep_pc' = "exited"
       ELSE exit_code' = exit_code /\ rep_pc' = "resolved"
    /\ UNCHANGED <<rep_sprint, rep_workflow, rep_quality, rep_decisions,
                   rep_workflow_data, rep_log, rep_progress, rep_shown, rep_caught,
                   rep_raised, rep_rendered>>
    /\ UNCHANGED <<component, project_name, fs_accessed>>
    /\ UNCHANGED <<audVars, valVars>>

\* ReportGenerator.generate_report, called by main or on an instance built
\* by another caller; both handlers end in sys.exit(1)
GenerateReport ==
    /\ component = "reporter" /\ exit_code = NoExit
    /\ rep_pc \in {"resolved", "constructed"}
    /\ fs_accessed' = TRUE
    /\ rep_caught' = TryBlock
    /\ rep_raised' = IF TryBlock = "none" THEN "none" ELSE "SystemExit"
    /\ rep_rendered' = IF LoadData # "none" THEN <<>> ELSE PrintReport.rendered
    /\ rep_progress' = rep_progress \o PrintedProgress
    /\ rep_shown' = rep_shown \o PrintedDecisions
    /\ rep_pc' = "generated"
    /\ UNCHANGED <<rep_sprint, rep_workflow, rep_quality, rep_decisions,
                   rep_workflow_data, rep_log>>
    /\ UNCHANGED <<component, project_name, locator_checked, exit_code>>
    /\ UNCHANGED <<audVars, valVars>>

\* the process ends when main's generate_report has returned or raised
ReporterExit ==
    /\ component = "reporter" /\ exit_code = NoExit
    /\ rep_pc = "generated" /\ locator_checked
    /\ exit_code' = ProcessExit(rep_raised, 1)
    /\ rep_pc' = "exited"
    /\ UNCHANGED <<rep_sprint, rep_workflow, rep_quality, rep_decisions,
                   rep_workflow_data, rep_log, rep_progress, rep_shown, rep_caught,
                   rep_raised, rep_rendered>>
    /\ UNCHANGED <<component, project_name, locator_checked, fs_accessed>>
    /\ UNCHANGED <<audVars, valVars>>

\* the script started as __main__, or ReportGenerator(project_name) built by a caller
InitReporter ==
    /\ component = "reporter"
    /\ project_name \in ProjectNames
    /\ locator_checked = FALSE
    /\ fs_accessed = FALSE
    /\ exit_code = NoExit
    /\ rep_sprint \in {"missing", "yaml_error", "none", "list", "map"}
    /\ rep_workflow \in {"missing", "malformed", "list", "map"}
    /\ rep_quality \in {"missing", "malformed", "list", "map"}
    /\ rep_decisions \in {"missing", "present"}
    /\ (project_name = "no-such-project" =>
            rep_sprint = "missing" /\ rep_workflow = "missing" /\ rep_quality = "missing")
    /\ rep_workflow_data \in (IF rep_sprint = "map" /\ rep_workflow = "map"
                              THEN ReporterWorkflows ELSE {<<>>})
    /\ rep_log \in (IF rep_decisions = "present" /\ rep_sprint = "map"
                       /\ rep_workflow = "map" /\ rep_quality = "map"
                    THEN DecisionLogs ELSE {<<>>})
    /\ rep_progress = <<>>
    /\ rep_shown = <<>>
    /\ rep_pc \in {"main", "constructed"}
    /\ rep_caught = "none"
    /\ rep_raised = "none"
    /\ rep_rendered = <<>>
    /\ AuditorIdle
    /\ ValidatorIdle

NextReporter == ResolveProjectPath \/ GenerateReport \/ ReporterExit

SpecReporter == InitReporter /\ [][NextReporter]_vars

-----------------------------------------------------------------------------
(* Claims about the auditor's two checks *)

TheTasks == AllTasks(workflow_file.data)
TitleOf(task) == IF "title" \in DOMAIN task THEN task.title ELSE <<>>
AssigneeOf(task) == IF "assigned_to" \in DOMAIN task THEN task.assigned_to ELSE None
HasRemediationMarker(title) ==
    \E i \in 1..(Len(title) - 11) : SubSeq(title, i, i + 11) = MARKER

\* C of claim C1 for agent a: tasks assigned to a that are assigned to an
\* oversight agent or carry the marker in the title
C1Count(a) ==
    Cardinality({ i \in 1..Len(TheTasks) :
        /\ AssigneeOf(TheTasks[i]) = a
        /\ \/ a \in {"quality-assurance-coordinator", "technical-debt-manager"}
           \/ HasRemediationMarker(TitleOf(TheTasks[i])) })
C1Hits(a) == { i \in 1..Len(anomalies) : anomalies[i].details.agent = a }

\* C1: the high-intervention check, run on a fresh auditor, emits exactly one
\* 'High Intervention Rate' anomaly naming agent a iff C1Count(a) exceeds the
\* intervention threshold (none at C = T, one at C = T + 1), for oversight and
\* other assignees alike, and the anomaly reports the count C1Count(a).
C1_InterventionAnomalyIffCountExceeds ==
    aud_calls = <<"_check_high_intervention_rate">> =>
        /\ \A i \in 1..Len(anomalies) :
              /\ anomalies[i].type = "High Intervention Rate"
              /\ anomalies[i].details.agent \in AgentPool
        /\ \A a \in AgentPool :
              /\ Cardinality(C1Hits(a)) =
                    (IF C1Count(a) > INTERVENTION_THRESHOLD THEN 1 ELSE 0)
              /\ \A i \in C1Hits(a) : anomalies[i].details.count = C1Count(a)

\* a non-oversight agent whose marked tasks number exactly T + 1 is flagged
C1_Witness ==
    /\ aud_calls = <<"_check_high_intervention_rate">>
    /\ INTERVENTION_THRESHOLD >= 1
    /\ C1Count("developer") = INTERVENTION_THRESHOLD + 1
    /\ C1Hits("developer") # {}

\* the normalized key of each title of the pool, written out
KeyFix == <<"f","i","x"," ","l","i","n","t"," ","e","r","r","o","r","s"," ","i","n">>
KeyDocs == <<"u","p","d","a","t","e"," ","d","o","c","s">>
KeyNested == <<"r","e","m","e","d","i","a","t","i","o","n",":"," ","r","e","r","u","n">>
C2Key(title) ==
    IF title \in {TitleX, TitleY, TitleZ, TitleW} THEN KeyFix
    ELSE IF title \in {TitleD, TitleR} THEN KeyDocs
    ELSE IF title = TitleN THEN KeyNested
    ELSE <<>>
C2Count(k) == Cardinality({ i \in 1..Len(TheTasks) : C2Key(TitleOf(TheTasks[i])) = k })
C2Hits(k) == { i \in 1..Len(anomalies) : anomalies[i].details.title = k }

\* C2: the task-loop check, run on a fresh auditor, emits exactly one
\* 'Potential Task Loop' anomaly for a normalized title k iff the number of
\* tasks of the three buckets together whose title normalizes to k exceeds the
\* loop threshold; titles differing only after the 4th token share a key.
C2_LoopAnomalyIffCountExceeds ==
    aud_calls = <<"_check_task_loops">> =>
        /\ \A i \in 1..Len(anomalies) :
              /\ anomalies[i].type = "Potential Task Loop"
              /\ anomalies[i].details.title \in {KeyFix, KeyDocs, KeyNested, <<>>}
        /\ \A k \in {KeyFix, KeyDocs, KeyNested, <<>>} :
              /\ Cardinality(C2Hits(k)) = (IF C2Count(k) > LOOP_THRESHOLD THEN 1 ELSE 0)
              /\ \A i \in C2Hits(k) : anomalies[i].details.count = C2Count(k)

\* tasks of two buckets whose titles differ after the 4th token are counted together
C2_Witness ==
    /\ aud_calls = <<"_check_task_loops">>
    /\ LOOP_THRESHOLD = 1
    /\ Len(workflow_file.data.pending_tasks) = 1
    /\ Len(workflow_file.data.active_tasks) = 1
    /\ workflow_file.data.pending_tasks[1].title = TitleW
    /\ workflow_file.data.active_tasks[1].title = TitleY
    /\ C2Hits(KeyFix) # {}

\* the result of normalizing "remediation: rerun" once more
KeyRerun == <<"r","e","r","u","n">>

\* C11: title normalization is idempotent: for every title t of the tasks the
\* task-loop check has normalized, normalize(normalize(t)) = normalize(t), also
\* when removing the marker joins the surrounding characters into a new
\* occurrence of the marker.
C11_NormalizeIsIdempotent ==
    (aud_calls # <<>> /\ aud_calls[Len(aud_calls)] = "_check_task_loops") =>
        \A i \in 1..Len(TheTasks) :
            NormalizedTwice[TitleOf(TheTasks[i])] = NormalizedTitle[TitleOf(TheTasks[i])]

\* what the check does on such a title: the key it counts still holds the
\* marker, and normalizing that key gives a different string
C11_NestedMarkerSurvives ==
    /\ aud_calls = <<"_check_task_loops">>
    /\ LOOP_THRESHOLD = 0
    /\ \E i \in 1..Len(TheTasks) : TitleOf(TheTasks[i]) = TitleN
    /\ C2Hits(KeyNested) # {}
    /\ NormalizedTwice[TitleN] = KeyRerun

\* the anomalies of each type held for agent a / normalized title k
C14InterventionHits(a) ==
    { i \in 1..Len(anomalies) :
        anomalies[i].type = "High Intervention Rate" /\ anomalies[i].details.agent = a }
C14LoopHits(k) ==
    { i \in 1..Len(anomalies) :
        anomalies[i].type = "Potential Task Loop" /\ anomalies[i].details.title = k }
C14Called(method) == \E i \in 1..Len(aud_calls) : aud_calls[i] = method

\* C14: anomalies are regenerated, not carried over: after any sequence of
\* calls of the checks on one auditor over the same task collection, the list
\* holds each anomaly that collection gives exactly once (what one call
\* gives), however many times a check has been called.
C14_AnomaliesNotCarriedOver ==
    (aud_calls # <<>> /\ \A i \in 1..Len(aud_calls) : aud_calls[i] # "run_audit") =>
        /\ \A a \in AgentPool :
              Cardinality(C14InterventionHits(a)) =
                 (IF C14Called("_check_high_intervention_rate")
                     /\ C1Count(a) > INTERVENTION_THRESHOLD THEN 1 ELSE 0)
        /\ \A k \in {KeyFix, KeyDocs, KeyNested, <<>>} :
              Cardinality(C14LoopHits(k)) =
                 (IF C14Called("_check_task_loops")
                     /\ C2Count(k) > LOOP_THRESHOLD THEN 1 ELSE 0)

\* the task-loop check called twice over the same tasks holds its anomaly twice
C14_SecondCallAppendsAgain ==
    /\ aud_calls = <<"_check_task_loops", "_check_task_loops">>
    /\ Len(anomalies) = 2
    /\ anomalies[1] = anomalies[2]

-----------------------------------------------------------------------------
(* Claims about the report's progress summary and decision excerpt *)

\* the task counts of the workflow state the reporter loaded
C12Count(key) == IF key \in DOMAIN rep_workflow_data THEN rep_workflow_data[key] ELSE 0
C12Total == C12Count("completed_tasks") + C12Count("active_tasks") + C12Count("pending_tasks")

\* C12: the progress percent the reporter prints is exactly 0 when
\* completed + active + pending = 0, exactly 100 when pending = active = 0 and
\* completed > 0, and completed / (completed + active + pending) * 100 otherwise.
C12_ProgressPercentOfCounts ==
    \A i \in 1..Len(rep_progress) :
        LET pct == rep_progress[i].progress_percent
            completed == C12Count("completed_tasks")
        IN  /\ pct.den > 0
            /\ rep_progress[i].completed = completed
            /\ rep_progress[i].total = C12Total
            /\ (C12Total = 0 => pct = [num |-> 0, den |-> 1])
            /\ (C12Total > 0 /\ C12Total = completed => pct = [num |-> 100, den |-> 1])
            /\ (C12Total > 0 => pct.num * C12Total = 100 * completed * pct.den)

\* the progress summary printed for a workflow state without any task
C12_Witness ==
    /\ Len(rep_progress) = 1
    /\ DOMAIN rep_workflow_data = {"completed_tasks", "active_tasks", "pending_tasks"}
    /\ C12Total = 0
    /\ rep_progress[1].progress_percent.num = 0

\* the entries of the log pool and the text each is displayed as
C13IsEntry(line) == line \in {LineD1, LineD2, LineD3, LineD4, LineD5, LineD6}
C13Text(line) == IF line = LineD2 THEN <<"d","2">> ELSE line
\* the entries of the loaded log, in file order, and the last 5 of them
C13Entries == SelectSeq(rep_log, C13IsEntry)
C13Expected ==
    [i \in 1..(IF Len(C13Entries) > 5 THEN 5 ELSE Len(C13Entries)) |->
        C13Text(C13Entries[Len(C13Entries) - (IF Len(C13Entries) > 5 THEN 5
                                                 ELSE Len(C13Entries)) + i])]

\* C13: the decisions the reporter displays are exactly the last 5 lines, in
\* file order, of the log's lines that are non-empty, not comments (a "#"
\* first, also after leading whitespace) and not the separator "---";
\* separator and comment lines never take up one of the 5 slots.
C13_DisplayedAreLastFiveEntries ==
    \A i \in 1..Len(rep_shown) : rep_shown[i].decisions = C13Expected

\* a separator among the last 5 kept lines takes a slot: fewer than 5
\* decisions are displayed although the log holds 5 entries
C13_SeparatorTakesASlot ==
    /\ Len(rep_shown) = 1
    /\ rep_log = <<LineD1, LineD3, LineRule, LineD4, LineD5, LineD6>>
    /\ rep_shown[1].decisions = <<LineD3, LineD4, LineD5, LineD6>>

\* a comment whose "#" follows leading whitespace is displayed as a decision
C13_IndentedCommentIsShown ==
    /\ Len(rep_shown) = 1
    /\ rep_log = <<LineHeader, LineD1, LineNote>>
    /\ rep_shown[1].decisions = <<LineD1, <<"#"," ","n","o","t","e">> >>

-----------------------------------------------------------------------------
(* Claims about run_audit and generate_report *)

\* C3: an audit run with workflow-state.json absent reports the missing file,
\* leaves the anomaly list empty, runs neither check and raises no exception.
C3_MissingWorkflowFileIsReported ==
    (aud_calls = <<"run_audit">> /\ ~workflow_file.exists) =>
        /\ aud_raised = "none"
        /\ anomalies = <<>>
        /\ aud_printed = <<"workflow-state.json not found">>

RequiredInputMissing ==
    "missing" \in {rep_sprint, rep_workflow, rep_quality, rep_decisions}

\* C4: with a required input of the reporter absent, generate_report raises
\* ReportGenerationError to its caller and renders no part of the report.
C4_MissingInputRaisesReportGenerationError ==
    (rep_pc = "generated" /\ RequiredInputMissing) =>
        /\ rep_raised = "ReportGenerationError"
        /\ rep_rendered = <<>>

-----------------------------------------------------------------------------
(* Claims about the validator *)

\* C5: whenever run_validations returns, the boolean it returns is true iff
\* self.errors is zero at that point, and no step of the run decreases
\* self.errors.
C5_ValidIffNoErrorsAndCounterMonotone ==
    [][ /\ errors' >= errors
        /\ (val_pc' = "returned" => (val_result' = (errors' = 0))) ]_vars

\* all five stages ran, several checks failed, and the run returned False
C5_Witness ==
    /\ val_pc = "returned"
    /\ Len(stages_run) = 5
    /\ errors >= 2
    /\ ~val_result

AllStages ==
    << "_validate_file_existence", "_validate_roomodes", "_validate_yaml_files",
       "_validate_json_files", "_cross_reference_capabilities" >>
RunEnded == val_pc \in {"returned", "raised", "exited"}

\* C6: when every required path exists, whatever the files hold, no exception
\* leaves run_validations and every stage still runs.
C6_NoExceptionLeavesRunValidations ==
    missing = {} =>
        /\ val_raised = "none"
        /\ (RunEnded => stages_run = AllStages)

\* C7: with a required path missing run_validations returns False having run
\* stage 1 only; with none missing it runs the five stages in order.
C7_LaterStagesSkippedOrAllRun ==
    RunEnded =>
        IF missing # {}
        THEN ~val_result /\ stages_run = <<"_validate_file_existence">>
        ELSE stages_run = AllStages

\* the identifiers each registry of the pool declares, written out
C8Declared(lines) ==
    IF lines = << IdQa >> THEN {IdQa}
    ELSE IF lines = << <<" ">> \o IdQa \o <<" ">>, <<>>, <<"\t">> \o IdDev >> THEN {IdQa, IdDev}
    ELSE IF lines = << IdQa, IdDev, IdGhost \o <<" ">>, IdNew >> THEN {IdQa, IdDev, IdGhost, IdNew}
    ELSE {}
C8Agents == {capabilities_yaml.agents.items[i] : i \in 1..Len(capabilities_yaml.agents.items)}
C8Undefined == C8Agents \ C8Declared(roomodes.lines)
C8Applies ==
    /\ stages_run = AllStages
    /\ roomodes.readable
    /\ capabilities_yaml.kind = "map"
    /\ capabilities_yaml.agents.kind \in {"list", "absent"}

\* C8: with A the agents of capabilities.yaml and M the identifiers the mode
\* registry declares, the cross-reference stage counts exactly one error iff
\* A \ M is non-empty, however many identifiers are undefined, reports exactly
\* A \ M, and the run is then not valid; with A a subset of M it counts none.
C8_CrossReferenceCountsOneErrorIffUndefined ==
    C8Applies =>
        /\ stage_errors[5] = (IF C8Undefined # {} THEN 1 ELSE 0)
        /\ undefined_agents = C8Undefined
        /\ (val_pc \in {"returned", "exited"} /\ C8Undefined # {} => ~val_result)

\* two undefined identifiers, one error, and the run returned
C8_Witness ==
    /\ C8Applies
    /\ val_pc = "returned"
    /\ Cardinality(C8Undefined) = 2
    /\ stage_errors[5] = 1
    /\ undefined_agents = {IdGhost, IdNew}

-----------------------------------------------------------------------------
(* Claims about every tool *)

\* C9: in every tool the project-locator check of the project name precedes
\* the tool's first filesystem access, and an invalid project name ends the
\* run with no file access by the tool.
C9_LocatorCheckBeforeFilesystem ==
    /\ fs_accessed => locator_checked
    /\ InvalidProjectPath(project_name) => ~fs_accessed

AuditFindsNothing ==
    /\ \A a \in AgentPool : C1Count(a) <= INTERVENTION_THRESHOLD
    /\ \A k \in {KeyFix, KeyDocs, KeyNested, <<>>} : C2Count(k) <= LOOP_THRESHOLD

\* C10: a tool's exit code is 0 exactly when its run succeeded (validator: no
\* errors; auditor: no anomalies; reporter: report rendered) and 1 otherwise;
\* the auditor exits 1 when workflow-state.json is absent.
C10_ExitCodeZeroIffSuccess ==
    exit_code # NoExit =>
        /\ component = "validator" =>
              exit_code = (IF val_raised = "none" /\ errors = 0 THEN 0 ELSE 1)
        /\ component = "auditor" =>
              exit_code = (IF workflow_file.exists /\ workflow_file.parses /\ AuditFindsNothing
                           THEN 0 ELSE 1)
        /\ component = "reporter" =>
              exit_code = (IF ~InvalidProjectPath(project_name)
                              /\ rep_rendered = <<"rule", "header", "goal", "progress",
                                                  "quality", "decisions", "end">>
                           THEN 0 ELSE 1)

=============================================================================
